---------------------------- MODULE Spec2Model ----------------------------
(***************************************************************************)
(* State-machine model of the SMC analysis pipeline (trending-smc/app).    *)
(*                                                                         *)
(* Numbers.  Prices are integers counting ticks of 1/300 of a price unit   *)
(* (a third of a cent), so that round(x, 2) is a real conversion (to the   *)
(* nearest multiple of 3 ticks) that never meets a tie.  Trend scores and  *)
(* trend confidence are integers counting hundredths (0.4 is 40): every    *)
(* sum of the weights 0.4/0.3/0.2/0.15 the classifier can form has the     *)
(* same order and the same equalities in IEEE doubles as in hundredths.    *)
(* Zone strength is an exact fraction [num, den].  Comparisons of floats   *)
(* are modelled by the exact comparison of the values they stand for.      *)
(*                                                                         *)
(* A DataFrame is the sequence of its rows (candles, oldest first); row    *)
(* positions are 0-based as in the source, At(df, i) reads position i.     *)
(***************************************************************************)
EXTENDS Integers, Sequences, FiniteSets, TLC

-----------------------------------------------------------------------------
(* Generic helpers standing for pandas / builtin operations *)

\* None among strings
Null == "None"

\* An optional value: None is the empty sequence, a present value x is <<x>>.
None == <<>>
Some(x) == <<x>>
Val(o) == o[1]

Max(S) == CHOOSE x \in S : \A y \in S : y <= x
Min(S) == CHOOSE x \in S : \A y \in S : x <= y
Abs(x) == IF x < 0 THEN -x ELSE x

\* python range(a, b) as a sequence
Range0(a, b) == [k \in 1..(IF b > a THEN b - a ELSE 0) |-> a + k - 1]

\* df.iloc[i]
At(df, i) == df[i + 1]

\* df.iloc[a:b] for 0 <= a, b <= len
Slice(df, a, b) == [k \in 1..(IF b > a THEN b - a ELSE 0) |-> df[a + k]]

\* df.iloc[-n:] for n > 0: the last n rows, or all of them
LastRows(df, n) == IF Len(df) <= n THEN df ELSE Slice(df, Len(df) - n, Len(df))

Highs(df) == {df[k].high : k \in 1..Len(df)}
Lows(df) == {df[k].low : k \in 1..Len(df)}

\* sum of the closes of the last n rows (rolling(window=n).mean() numerator)
RECURSIVE SumClose(_, _)
SumClose(df, k) == IF k = 0 THEN 0 ELSE df[k].close + SumClose(df, k - 1)

\* round(x, 2) of a price in ticks: the nearest multiple of 3 ticks
Round2(x) == LET r == x % 3 IN IF r = 0 THEN x ELSE IF r = 1 THEN x - 1 ELSE x + 1

-----------------------------------------------------------------------------
(* structure.py : swing points *)

\* (variant: a swing high must exceed every other high of its window)
SwingIsHigh_Strict(df, window, i) ==
    \A j \in (i - window)..(i + window) : j # i => At(df, j).high < At(df, i).high

SwingIsHigh(df, window, i) ==
    At(df, i).high = Max(Highs(Slice(df, i - window, i + window + 1)))

SwingIsLow(df, window, i) ==
    At(df, i).low = Min(Lows(Slice(df, i - window, i + window + 1)))

find_swing_highs(df, window) ==
    SelectSeq(Range0(window, Len(df) - window), LAMBDA i : SwingIsHigh(df, window, i))

find_swing_lows(df, window) ==
    SelectSeq(Range0(window, Len(df) - window), LAMBDA i : SwingIsLow(df, window, i))
-----------------------------------------------------------------------------
(* structure.py : htf_trend_advanced, in hundredths *)

Labels == <<"bullish", "bearish", "range">>

ZeroScores == [bullish |-> 0, bearish |-> 0, range |-> 0]

Add(scores_, label, w) == [scores_ EXCEPT ![label] = @ + w]

\* (variant: an undecided swing structure gives range the full weight)
SwingScore_RangeFull(recent, scores_) ==
    LET highs == find_swing_highs(recent, 5)
        lows == find_swing_lows(recent, 5)
    IN IF Len(highs) >= 2 /\ Len(lows) >= 2 THEN Add(scores_, "range", 40) ELSE scores_

\* Score 1: swing structure (weight 0.4, or 0.2 to range)
SwingScore(recent, scores_) ==
    LET highs == find_swing_highs(recent, 5)
        lows == find_swing_lows(recent, 5)
    IN IF Len(highs) >= 2 /\ Len(lows) >= 2
       THEN LET last_high == At(recent, highs[Len(highs)]).high
                prev_high == At(recent, highs[Len(highs) - 1]).high
                last_low == At(recent, lows[Len(lows)]).low
                prev_low == At(recent, lows[Len(lows) - 1]).low
                hh == last_high > prev_high
                hl == last_low > prev_low
                lh == last_high < prev_high
                ll == last_low < prev_low
            IN IF hh /\ hl THEN Add(scores_, "bullish", 40)
               ELSE IF lh /\ ll THEN Add(scores_, "bearish", 40)
               ELSE Add(scores_, "range", 20)
       ELSE scores_

\* Score 2: moving averages (weight 0.3, or 0.15 to range).  rolling(20) and
\* rolling(50) means of the window's closes; a mean over more rows than the
\* window holds is NaN, and every comparison with NaN is false.
MAScore(recent, scores_) ==
    LET n == Len(recent)
        current_close == recent[n].close
        has20 == n >= 20
        has50 == n >= 50
        sum20 == SumClose(LastRows(recent, 20), IF has20 THEN 20 ELSE n)
        sum50 == SumClose(LastRows(recent, 50), IF has50 THEN 50 ELSE n)
        above == has20 /\ has50 /\ 20 * current_close > sum20 /\ 50 * sum20 > 20 * sum50
        below == has20 /\ has50 /\ 20 * current_close < sum20 /\ 50 * sum20 < 20 * sum50
    IN IF above THEN Add(scores_, "bullish", 30)
       ELSE IF below THEN Add(scores_, "bearish", 30)
       ELSE Add(scores_, "range", 15)

\* Score 3: candle bias (weight 0.3, or 0.15 to range)
BiasScore(recent, scores_) ==
    LET n == Len(recent)
        bullish_candles == Cardinality({k \in 1..n : recent[k].close > recent[k].open})
    IN IF 10 * bullish_candles > 6 * n THEN Add(scores_, "bullish", 30)
       ELSE IF 10 * bullish_candles < 4 * n THEN Add(scores_, "bearish", 30)
       ELSE Add(scores_, "range", 15)

\* max(scores.values())
MaxScore(scores_) == Max({scores_[Labels[k]] : k \in 1..3})

\* (variant: the last key of maximal value)
ArgMaxLabel_Last(scores_) ==
    Labels[Max({k \in 1..3 : scores_[Labels[k]] = MaxScore(scores_)})]

\* max(scores, key=scores.get): the first key, in insertion order, of maximal value
ArgMaxLabel(scores_) ==
    Labels[Min({k \in 1..3 : scores_[Labels[k]] = MaxScore(scores_)})]

TrendScores(df, lookback) ==
    LET recent == LastRows(df, lookback)
    IN BiasScore(recent, MAScore(recent, SwingScore(recent, ZeroScores)))

htf_trend_advanced(df, lookback) ==
    IF Len(df) < 20 THEN [trend |-> "range", confidence |-> 0]
    ELSE LET final == TrendScores(df, lookback)
         IN [trend |-> ArgMaxLabel(final), confidence |-> MaxScore(final)]

-----------------------------------------------------------------------------
(* orderblock.py *)

\* strong candle in the direction of the trend, body > 60% of its range
ObIsStrong(current, trend) ==
    IF trend = "bullish"
    THEN current.close > current.open
         /\ 10 * (current.close - current.open) > 6 * (current.high - current.low)
    ELSE current.close < current.open
         /\ 10 * (current.open - current.close) > 6 * (current.high - current.low)

ObHasPullback(current, next_candle, trend) ==
    IF trend = "bullish" THEN next_candle.low < current.low
    ELSE next_candle.high > current.high

\* whether position i of the window yields a block; only the two explicit
\* branches (trend == "bullish", elif trend == "bearish") scan at all
ObHit(recent, trend, i) ==
    /\ trend \in {"bullish", "bearish"}
    /\ ObIsStrong(At(recent, i), trend)
    /\ ObHasPullback(At(recent, i), At(recent, i + 1), trend)

ObBlock(current, ob_counter) ==
    [high |-> current.high, low |-> current.low, close |-> current.close,
     open |-> current.open, ob_id |-> <<"OB", ob_counter>>]

order_blocks(df, trend, lookback) ==
    LET recent == LastRows(df, lookback)
        hits == SelectSeq(Range0(1, Len(recent) - 2), LAMBDA i : ObHit(recent, trend, i))
    IN [k \in 1..Len(hits) |-> ObBlock(At(recent, hits[k]), k)]

-----------------------------------------------------------------------------
(* fvg.py *)

\* the gap test of pair (i-1, i)
FvgIsGap(recent, trend, i) ==
    IF trend = "bullish" THEN At(recent, i - 1).high < At(recent, i).low
    ELSE IF trend = "bearish" THEN At(recent, i - 1).low > At(recent, i).high
    ELSE FALSE

\* (variant: a later candle that only touches the gap's bound leaves it unfilled)
FvgUnfilled_Touching(recent, trend_, i) ==
    IF trend_ = "bullish"
    THEN Min(Lows(Slice(recent, i, Len(recent)))) >= At(recent, i - 1).high
    ELSE Max(Highs(Slice(recent, i, Len(recent)))) <= At(recent, i - 1).low

\* the gap is still unfilled: recent['low'].iloc[i:].min() > gap_low, resp.
\* recent['high'].iloc[i:].max() < gap_high
FvgUnfilled(recent, trend, i) ==
    IF trend = "bullish"
    THEN Min(Lows(Slice(recent, i, Len(recent)))) > At(recent, i - 1).high
    ELSE Max(Highs(Slice(recent, i, Len(recent)))) < At(recent, i - 1).low

FvgZone(recent, trend, i) ==
    IF trend = "bullish"
    THEN [high |-> At(recent, i).low, low |-> At(recent, i - 1).high]
    ELSE [high |-> At(recent, i - 1).low, low |-> At(recent, i).high]

\* the positions i of the scan, range(1, len(recent) - 1), that append a gap
FvgHits(recent, trend) ==
    SelectSeq(Range0(1, Len(recent) - 1),
              LAMBDA i : FvgIsGap(recent, trend, i) /\ FvgUnfilled(recent, trend, i))

fair_value_gaps(df, trend, lookback) ==
    LET recent == LastRows(df, lookback)
        hits == FvgHits(recent, trend)
    IN [k \in 1..Len(hits) |-> FvgZone(recent, trend, hits[k])]

-----------------------------------------------------------------------------
(* liquidity.py *)

liquidity_sweep(df, trend) ==
    IF Len(df) < 5 THEN FALSE
    ELSE LET recent == LastRows(df, 5)
             current == At(df, Len(df) - 1)
             previous == At(df, Len(df) - 2)
             recent_high == Max(Highs(recent))
             recent_low == Min(Lows(recent))
         IN IF trend = "bullish"
            THEN \/ 100 * previous.high >= 99 * recent_high /\ current.close < recent_high
                 \/ 100 * current.high >= 99 * recent_high /\ current.close < current.open
            ELSE IF trend = "bearish"
            THEN \/ 100 * previous.low <= 101 * recent_low /\ current.close > recent_low
                 \/ 100 * current.low <= 101 * recent_low /\ current.close > current.open
            ELSE FALSE

-----------------------------------------------------------------------------
(* structure.py : bos *)

\* (variant: the structure break is evaluated whatever the length)
bos_Unguarded(df, trend, lookback) ==
    LET recent == LastRows(df, lookback)
        current_high == At(df, Len(df) - 1).high
        current_low == At(df, Len(df) - 1).low
        earlier == Slice(df, Len(df) - lookback, Len(df) - 5)
    IN IF trend = "bullish"
       THEN Len(find_swing_lows(recent, 3)) >= 2 /\ current_high > Max(Highs(earlier))
       ELSE IF trend = "bearish"
       THEN Len(find_swing_highs(recent, 3)) >= 2 /\ current_low < Min(Lows(earlier))
       ELSE FALSE

bos(df, trend, lookback) ==
    IF Len(df) < lookback + 5 THEN FALSE
    ELSE LET recent == LastRows(df, lookback)
             current_high == At(df, Len(df) - 1).high
             current_low == At(df, Len(df) - 1).low
             earlier == Slice(df, Len(df) - lookback, Len(df) - 5)
         IN IF trend = "bullish"
            THEN Len(find_swing_lows(recent, 3)) >= 2 /\ current_high > Max(Highs(earlier))
            ELSE IF trend = "bearish"
            THEN Len(find_swing_highs(recent, 3)) >= 2 /\ current_low < Min(Lows(earlier))
            ELSE FALSE

-----------------------------------------------------------------------------
(* zones.py *)

\* bands as exact fractions of a tick: low/high are given times 100
premium_discount(df, lookback) ==
    LET recent == LastRows(df, lookback)
        highest == Max(Highs(recent))
        lowest == Min(Lows(recent))
    IN [premium |-> [high100 |-> 100 * highest, low100 |-> 98 * highest],
        discount |-> [high100 |-> 102 * lowest, low100 |-> 100 * lowest]]

price_zone(price, zones) ==
    IF zones.premium.low100 <= 100 * price /\ 100 * price <= zones.premium.high100
    THEN "premium"
    ELSE IF zones.discount.low100 <= 100 * price /\ 100 * price <= zones.discount.high100
    THEN "discount"
    ELSE "neutral"

-----------------------------------------------------------------------------
(* helpers.py *)

\* The default timezone argument "Asia/Bangkok" is UTC+7 all year.
BangkokOffset == 7

\* The hour of the timestamp after conversion to UTC.  A timestamp is
\*   [kind |-> "int", value |-> k]   a RangeIndex label: pd.Timestamp(k) is k
\*                                   nanoseconds after 1970-01-01 00:00, naive
\*                                   (candle_hour: the UTC hour in the row's
\*                                   'time' column, which the lookup never reads)
\*   [kind |-> "naive", hour |-> h]  a naive Timestamp, localized to Bangkok
\*   [kind |-> "utc", hour |-> h]    a UTC-aware Timestamp
UtcHour(timestamp) ==
    IF timestamp.kind = "int" THEN (0 - BangkokOffset) % 24
    ELSE IF timestamp.kind = "naive" THEN (timestamp.hour - BangkokOffset) % 24
    ELSE timestamp.hour

SessionOfHour(hour) ==
    IF 8 <= hour /\ hour < 16 THEN "london"
    ELSE IF 13 <= hour /\ hour < 21 THEN "newyork"
    ELSE IF 0 <= hour /\ hour < 8 THEN "tokyo"
    ELSE "none"

get_trading_session(timestamp) == SessionOfHour(UtcHour(timestamp))

\* (variant: the strength is returned without max(0.0, min(1.0, ...)))
calculate_zone_strength_Unclamped(price_, zone) ==
    LET zone_range == zone.high - zone.low
        dist_from_low == price_ - zone.low
        raw == Abs(zone_range) - Abs(2 * dist_from_low - zone_range)
    IN IF zone_range = 0 THEN [num |-> 1, den |-> 2]
       ELSE [num |-> raw, den |-> Abs(zone_range)]

\* (variant: the edges are the strongest, the middle the weakest)
calculate_zone_strength_Inverted(price_, zone) ==
    LET zone_range == zone.high - zone.low
        dist_from_low == price_ - zone.low
        raw == Abs(2 * dist_from_low - zone_range)
    IN IF zone_range = 0 THEN [num |-> 1, den |-> 2]
       ELSE [num |-> Max({0, Min({Abs(zone_range), raw})}), den |-> Abs(zone_range)]

\* the strength as the exact fraction num/den (den > 0)
calculate_zone_strength(price, zone) ==
    LET zone_range == zone.high - zone.low
        dist_from_low == price - zone.low
        raw == Abs(zone_range) - Abs(2 * dist_from_low - zone_range)
    IN IF zone_range = 0 THEN [num |-> 1, den |-> 2]
       ELSE [num |-> Max({0, Min({Abs(zone_range), raw})}), den |-> Abs(zone_range)]

\* zone_strength > 0.7
StrengthAbove07(zone_strength) == 10 * zone_strength.num > 7 * zone_strength.den

\* (variant: one confirmation is enough for grade B)
calculate_confidence_score_OneIsEnough(ls_check_, bos_check_, zone_strength_) ==
    LET conditions_met == (IF ls_check_ THEN 1 ELSE 0) + (IF bos_check_ THEN 1 ELSE 0)
    IN IF conditions_met = 2 /\ StrengthAbove07(zone_strength_) THEN "A"
       ELSE IF conditions_met >= 1 \/ StrengthAbove07(zone_strength_) THEN "B"
       ELSE "C"

calculate_confidence_score(ls_check_, bos_check_, zone_strength_) ==
    LET conditions_met == (IF ls_check_ THEN 1 ELSE 0) + (IF bos_check_ THEN 1 ELSE 0)
    IN IF conditions_met = 2 /\ StrengthAbove07(zone_strength_) THEN "A"
       ELSE IF conditions_met = 2 \/ StrengthAbove07(zone_strength_) THEN "B"
       ELSE "C"

ZoneContains(z, price) == z.low <= price /\ price <= z.high

\* for z in zones: if low <= price <= high: found = z; break
RECURSIVE FirstContaining(_, _)
FirstContaining(zones, price) ==
    IF zones = <<>> THEN <<>>
    ELSE IF ZoneContains(Head(zones), price) THEN <<Head(zones)>>
    ELSE FirstContaining(Tail(zones), price)

HasObId(z) == "ob_id" \in DOMAIN z

\* (variant: every zone without an ob_id counts as a fair-value gap)
HasFvgId_Untagged(z) == "ob_id" \notin DOMAIN z

HasFvgId(z) == "fvg_id" \in DOMAIN z

\* z.get('ob_id', 'OB_X'), z.get('fvg_id', 'FVG_X')
ObIdOf(z) == IF "ob_id" \in DOMAIN z THEN z.ob_id ELSE <<"OB", "X">>
FvgIdOf(z) == IF "fvg_id" \in DOMAIN z THEN z.fvg_id ELSE <<"FVG", "X">>

\* (variant: when both kinds match, the order block's zone is returned)
deduplicate_signals_ObBounds(zones_combined, price_) ==
    LET obs_ == SelectSeq(zones_combined, HasObId)
        fvgs_ == SelectSeq(zones_combined, HasFvgId)
        price_in_ob == FirstContaining(obs_, price_)
        price_in_fvg == FirstContaining(fvgs_, price_)
    IN IF price_in_ob # <<>> /\ price_in_fvg # <<>>
       THEN [zone |-> price_in_ob, source |-> "BOTH",
             dedup_id |-> <<FvgIdOf(price_in_fvg[1]), "+", ObIdOf(price_in_ob[1])>>]
       ELSE IF price_in_ob # <<>>
       THEN [zone |-> price_in_ob, source |-> "OB", dedup_id |-> ObIdOf(price_in_ob[1])]
       ELSE IF price_in_fvg # <<>>
       THEN [zone |-> price_in_fvg, source |-> "FVG", dedup_id |-> FvgIdOf(price_in_fvg[1])]
       ELSE [zone |-> <<>>, source |-> "NONE", dedup_id |-> <<"NONE">>]

\* the returned tuple (best_zone, zone_source, dedup_id); best_zone is <<>> for
\* None and <<z>> for a zone z
deduplicate_signals(zones_combined, price) ==
    LET obs_ == SelectSeq(zones_combined, HasObId)
        fvgs_ == SelectSeq(zones_combined, HasFvgId)
        price_in_ob == FirstContaining(obs_, price)
        price_in_fvg == FirstContaining(fvgs_, price)
    IN IF price_in_ob # <<>> /\ price_in_fvg # <<>>
       THEN [zone |-> price_in_fvg, source |-> "BOTH",
             dedup_id |-> <<FvgIdOf(price_in_fvg[1]), "+", ObIdOf(price_in_ob[1])>>]
       ELSE IF price_in_ob # <<>>
       THEN [zone |-> price_in_ob, source |-> "OB", dedup_id |-> ObIdOf(price_in_ob[1])]
       ELSE IF price_in_fvg # <<>>
       THEN [zone |-> price_in_fvg, source |-> "FVG", dedup_id |-> FvgIdOf(price_in_fvg[1])]
       ELSE [zone |-> <<>>, source |-> "NONE", dedup_id |-> <<"NONE">>]

\* round(x, 2) of the fraction num/den >= 0, in hundredths.  A value half way
\* between two hundredths rounds by its binary representation: either way.
Round2Frac(num, den) ==
    LET lo == (100 * num) \div den
    IN IF 100 * num = lo * den THEN {lo}
       ELSE IF 200 * num < (2 * lo + 1) * den THEN {lo}
       ELSE IF 200 * num > (2 * lo + 1) * den THEN {lo + 1}
       ELSE {lo, lo + 1}

\* (variant: risk and reward are taken from the rounded prices)
RiskReward_Rounded(price_, sl_, tp_) ==
    LET risk == Abs(Round2(price_) - Round2(sl_))
        reward == Abs(Round2(tp_) - Round2(price_))
    IN IF risk > 0 THEN [num |-> reward, den |-> risk] ELSE [num |-> 0, den |-> 1]

\* reward / risk if risk > 0 else 0, as a fraction
RiskReward(price, sl_, tp_) ==
    LET risk == Abs(price - sl_)
        reward == Abs(tp_ - price)
    IN IF risk > 0 THEN [num |-> reward, den |-> risk] ELSE [num |-> 0, den |-> 1]

\* the signals format_signal_output can return (one, but for rounding ties)
format_signal_output(side_, price_, sl_, tp_, trend_, zone_type_, zone_source_, dedup_id_, confidence_, zone_strength_) ==
    LET rr == RiskReward(price_, sl_, tp_)
    IN { [side |-> side_,
          entry |-> <<Round2(price_), Round2(price_)>>,
          sl |-> Round2(sl_),
          tp |-> Round2(tp_),
          trend |-> trend_,
          zone_type |-> zone_type_,
          zone_source |-> zone_source_,
          dedup_id |-> dedup_id_,
          confidence |-> confidence_,
          zone_strength |-> zs,
          risk_reward |-> r] :
         zs \in Round2Frac(zone_strength_.num, zone_strength_.den),
         r \in Round2Frac(rr.num, rr.den) }

-----------------------------------------------------------------------------
(* Candle series fed to the pipeline.  A series is a sawtooth: nup candles  *)
(* rising by u ticks, then ndn candles falling by d ticks, repeated, read   *)
(* from a phase of the period on; a rising candle carries an upper wick of  *)
(* w ticks, a falling one a lower wick.                                     *)

MaxPhase == 1
ExtraLen == 1

Shape(nup, ndn, u, d) == [nup |-> nup, ndn |-> ndn, u |-> u, d |-> d]

CloseAt(t, i) ==
    LET per == t.nup + t.ndn
        j == i + 1 + t.phase
        q == j \div per
        r == j % per
        net == t.nup * t.u - t.ndn * t.d
        within == IF r <= t.nup THEN r * t.u ELSE t.nup * t.u - (r - t.nup) * t.d
    IN t.base + q * net + within

Candle(t, i) ==
    LET o == CloseAt(t, i - 1)
        c == CloseAt(t, i)
    IN IF c >= o THEN [open |-> o, high |-> c + t.w, low |-> o, close |-> c]
       ELSE [open |-> o, high |-> o, low |-> c - t.w, close |-> c]

MkSeries(shape, phase, base, n) ==
    LET t == [nup |-> shape.nup, ndn |-> shape.ndn, u |-> shape.u, d |-> shape.d,
              w |-> 1, base |-> base, phase |-> phase]
    IN [k \in 1..n |-> Candle(t, k - 1)]

\* the series moved so that its last close is the given price
ShiftTo(df, last_close) ==
    LET by == last_close - df[Len(df)].close
    IN [k \in 1..Len(df) |->
          [open |-> df[k].open + by, high |-> df[k].high + by,
           low |-> df[k].low + by, close |-> df[k].close + by]]

-----------------------------------------------------------------------------
(* State *)

VARIABLES
    htf_df, ltf_df,        \* smc_strategy's series arguments (None or Some(rows))
    ltf_index_last,        \* ltf_df.index[-1]
    session_filter,        \* smc_strategy's session_filter argument (Null: no filter)
    min_confidence,        \* smc_strategy's min_confidence argument
    fault,                 \* the stage whose code raises an exception in this call
                           \* (Null: none), "raised" once it has
    srv,                   \* the Analyze request being served
    pc,                    \* the stage smc_strategy is at
    trend, trend_strength, current_session, price, zone_type,
    obs, fvgs, price_in_zone, zone_source, dedup_id,
    ls_check, bos_check, zone_strength, confidence, sl, tp, side,
    result,                \* what smc_strategy returned (None or Some(signal))
    call, cpc, ret,        \* one call of a component on its own: arguments, position, result
    scores,                \* htf_trend_advanced's local scores
    th                     \* the order_blocks calls in progress, one frame per worker thread

unit == <<call, cpc, ret, scores, th>>
args == <<htf_df, ltf_df, ltf_index_last, session_filter, min_confidence>>
inputs == <<args, fault, srv>>
locals == <<trend, trend_strength, current_session, price, zone_type, obs, fvgs,
            price_in_zone, zone_source, dedup_id, ls_check, bos_check,
            zone_strength, confidence, sl, tp, side>>
vars == <<inputs, pc, locals, result, unit>>

-----------------------------------------------------------------------------
(* strategy/smc_strategy.py : smc_strategy, stage by stage *)

MinHTF == 50
MinLTF == 20
RewardMultiple == 3

\* (variant: the two length tests joined by "and")
ValidInput_BothShort(htf, ltf) ==
    ~(htf = None \/ ltf = None) /\ ~(Len(Val(htf)) < MinHTF /\ Len(Val(ltf)) < MinLTF)

\* STEP 1: neither series is None and both are long enough
ValidInput(htf, ltf) ==
    ~(htf = None \/ ltf = None) /\ ~(Len(Val(htf)) < MinHTF \/ Len(Val(ltf)) < MinLTF)

\* (variant: a range trend of strength 0.5 is skipped as well)
TrendGateStops_AtHalf(trend_, trend_strength_) == trend_ = "range" /\ trend_strength_ <= 50

\* STEP 2: a range trend of strength < 0.5 is skipped
TrendGateStops(trend_, trend_strength_) == trend_ = "range" /\ trend_strength_ < 50

\* (variant: the SELL target taken above the entry)
StopAndTarget_SellTargetAbove(trend_, price_, zone) ==
    IF trend_ = "bullish"
    THEN [sl |-> zone.low, tp |-> price_ + (price_ - zone.low) * RewardMultiple, side |-> "BUY"]
    ELSE [sl |-> zone.high, tp |-> price_ + (zone.high - price_) * RewardMultiple, side |-> "SELL"]

\* STEP 10: stop, target and side
StopAndTarget(trend_, price_, zone) ==
    IF trend_ = "bullish"
    THEN [sl |-> zone.low, tp |-> price_ + (price_ - zone.low) * RewardMultiple, side |-> "BUY"]
    ELSE [sl |-> zone.high, tp |-> price_ - (zone.high - price_) * RewardMultiple, side |-> "SELL"]

Return(r) == pc' = "done" /\ result' = r

\* helpers.py filter_by_confidence: unknown grades rank as C
ConfidenceRank(g) == IF g = "A" THEN 3 ELSE IF g = "B" THEN 2 ELSE 1

filter_by_confidence(confidence_, min_confidence_) ==
    ConfidenceRank(confidence_) >= ConfidenceRank(min_confidence_)

\* (variant: STEP 9 as it stood before its removal)
GradeGate_Filtered(confidence_, min_confidence_) ==
    filter_by_confidence(confidence_, min_confidence_)

\* STEP 9 is commented out: every grade goes on to STEP 10
GradeGate(confidence_, min_confidence_) == TRUE

Validate ==
    /\ pc = "validate"
    /\ IF ValidInput(htf_df, ltf_df) THEN pc' = "trend" /\ UNCHANGED result
       ELSE Return(None)
    /\ UNCHANGED <<unit, inputs, locals>>

ClassifyTrend ==
    /\ pc = "trend"
    /\ LET t == htf_trend_advanced(Val(htf_df), 50)
       IN /\ trend' = t.trend
          /\ trend_strength' = t.confidence
          /\ IF TrendGateStops(t.trend, t.confidence) THEN Return(None)
             ELSE pc' = "session" /\ UNCHANGED result
    /\ UNCHANGED <<unit, inputs, current_session, price, zone_type, obs, fvgs, price_in_zone,
                   zone_source, dedup_id, ls_check, bos_check, zone_strength,
                   confidence, sl, tp, side>>

\* STEP 3
SessionGate ==
    /\ pc = "session"
    /\ IF session_filter # Null
       THEN /\ current_session' = get_trading_session(ltf_index_last)
            /\ IF current_session' # session_filter THEN Return(None)
               ELSE pc' = "zones" /\ UNCHANGED result
       ELSE pc' = "zones" /\ UNCHANGED <<current_session, result>>
    /\ UNCHANGED <<unit, inputs, trend, trend_strength, price, zone_type, obs, fvgs,
                   price_in_zone, zone_source, dedup_id, ls_check, bos_check,
                   zone_strength, confidence, sl, tp, side>>

\* STEP 4
ZoneComputation ==
    /\ pc = "zones"
    /\ price' = Val(ltf_df)[Len(Val(ltf_df))].close
    /\ zone_type' = price_zone(price', premium_discount(Val(htf_df), 100))
    /\ pc' = "scan"
    /\ UNCHANGED <<unit, inputs, trend, trend_strength, current_session, obs, fvgs,
                   price_in_zone, zone_source, dedup_id, ls_check, bos_check,
                   zone_strength, confidence, sl, tp, side, result>>

\* STEP 5
StructureScan ==
    /\ pc = "scan"
    /\ obs' = order_blocks(Val(htf_df), trend, 50)
    /\ fvgs' = fair_value_gaps(Val(htf_df), trend, 50)
    /\ IF obs' \o fvgs' = <<>> THEN Return(None)
       ELSE pc' = "match" /\ UNCHANGED result
    /\ UNCHANGED <<unit, inputs, trend, trend_strength, current_session, price, zone_type,
                   price_in_zone, zone_source, dedup_id, ls_check, bos_check,
                   zone_strength, confidence, sl, tp, side>>

\* STEP 6
ZoneMatch ==
    /\ pc = "match"
    /\ LET d == deduplicate_signals(obs \o fvgs, price)
       IN /\ price_in_zone' = d.zone
          /\ zone_source' = d.source
          /\ dedup_id' = d.dedup_id
          /\ IF d.zone = None THEN Return(None)
             ELSE pc' = "confirm" /\ UNCHANGED result
    /\ UNCHANGED <<unit, inputs, trend, trend_strength, current_session, price, zone_type,
                   obs, fvgs, ls_check, bos_check, zone_strength, confidence,
                   sl, tp, side>>

\* STEP 7
Confirmation ==
    /\ pc = "confirm"
    /\ ls_check' = liquidity_sweep(Val(ltf_df), trend)
    /\ bos_check' = bos(Val(ltf_df), trend, 20)
    /\ pc' = "score"
    /\ UNCHANGED <<unit, inputs, trend, trend_strength, current_session, price, zone_type,
                   obs, fvgs, price_in_zone, zone_source, dedup_id, zone_strength,
                   confidence, sl, tp, side, result>>

\* STEP 8 (STEP 9, the minimum-grade filter, is commented out in the source)
Score ==
    /\ pc = "score"
    /\ zone_strength' = calculate_zone_strength(price, Val(price_in_zone))
    /\ confidence' = calculate_confidence_score(ls_check, bos_check, zone_strength')
    /\ IF GradeGate(confidence', min_confidence) THEN pc' = "generate" /\ UNCHANGED result
       ELSE Return(None)
    /\ UNCHANGED <<unit, inputs, trend, trend_strength, current_session, price, zone_type,
                   obs, fvgs, price_in_zone, zone_source, dedup_id, ls_check,
                   bos_check, sl, tp, side>>

\* STEP 10
GenerateSignal ==
    /\ pc = "generate"
    /\ LET g == StopAndTarget(trend, price, Val(price_in_zone))
       IN sl' = g.sl /\ tp' = g.tp /\ side' = g.side
    /\ pc' = "format"
    /\ UNCHANGED <<unit, inputs, trend, trend_strength, current_session, price, zone_type,
                   obs, fvgs, price_in_zone, zone_source, dedup_id, ls_check,
                   bos_check, zone_strength, confidence, result>>

\* STEP 11, and the two fields added to the formatted signal
FormatSignal ==
    /\ pc = "format"
    /\ \E signal \in format_signal_output(side, price, sl, tp, trend, zone_type,
                                           zone_source, dedup_id, confidence,
                                           zone_strength) :
          Return(Some([k \in DOMAIN signal \cup {"trend_strength", "session"} |->
                         IF k = "trend_strength" THEN trend_strength
                         ELSE IF k = "session" THEN current_session
                         ELSE signal[k]]))
    /\ UNCHANGED <<unit, inputs, locals>>

-----------------------------------------------------------------------------
(* The calls made: every pair of series, filter and latest index label *)

PriceSpan == 5

HtfShapes == {Shape(7, 3, 4, 8), Shape(3, 7, 8, 4), Shape(1, 1, 2, 2),
              Shape(0, 1, 0, 0), Shape(1, 2, 2, 0)}
LtfShapes == {Shape(5, 2, 2, 4), Shape(1, 3, 5, 2)}

HtfLens == {10, MinHTF - 1} \cup (MinHTF..(MinHTF + ExtraLen))
LtfLens == {MinLTF - 1, MinLTF} \cup (25..(25 + ExtraLen))

LastCloses == {200} \cup UNION {a..(a + PriceSpan) : a \in {183, 224}}

HtfInputs ==
    {None} \cup {Some(MkSeries(sh, 0, 200, n)) : sh \in HtfShapes, n \in HtfLens}

LtfInputs ==
    {None} \cup {Some(ShiftTo(MkSeries(sh, ph, 200, n), c)) :
                    sh \in LtfShapes, ph \in 0..MaxPhase, n \in LtfLens, c \in LastCloses}

\* (session_filter, ltf_df.index[-1]) as the server and the tests pass them
SessionInputs ==
    {<<Null, [kind |-> "int", value |-> 0, candle_hour |-> 14]>>,
     <<"newyork", [kind |-> "int", value |-> 0, candle_hour |-> 3]>>,
     <<"newyork", [kind |-> "naive", hour |-> 21]>>}

Init ==
    /\ htf_df \in HtfInputs
    /\ ltf_df \in LtfInputs
    /\ \E s \in SessionInputs : session_filter = s[1] /\ ltf_index_last = s[2]
    /\ min_confidence = "C" /\ fault = Null /\ srv = <<>>
    /\ pc = "validate"
    /\ trend = Null /\ trend_strength = 0 /\ current_session = "unknown"
    /\ price = 0 /\ zone_type = Null
    /\ obs = <<>> /\ fvgs = <<>> /\ price_in_zone = None
    /\ zone_source = Null /\ dedup_id = <<>>
    /\ ls_check = FALSE /\ bos_check = FALSE
    /\ zone_strength = [num |-> 0, den |-> 1] /\ confidence = Null
    /\ sl = 0 /\ tp = 0 /\ side = Null
    /\ result = None
    /\ call = <<>> /\ cpc = "idle" /\ ret = <<>> /\ scores = ZeroScores /\ th = <<>>

Next ==
    \/ Validate
    \/ ClassifyTrend
    \/ SessionGate
    \/ ZoneComputation
    \/ StructureScan
    \/ ZoneMatch
    \/ Confirmation
    \/ Score
    \/ GenerateSignal
    \/ FormatSignal

Spec == Init /\ [][Next]_vars

-----------------------------------------------------------------------------
(* Properties of smc_strategy, checked under Spec *)

Returned == pc = "done"
ReturnedSignal == pc = "done" /\ result # None

\* C1: whenever either series is None, the HTF series has fewer than 50 candles
\* or the LTF series has fewer than 20, smc_strategy never gets past the
\* validation stage and returns None, whatever the other inputs are.
C1_ValidationGate ==
    (htf_df = None \/ ltf_df = None \/ Len(Val(htf_df)) < 50 \/ Len(Val(ltf_df)) < 20)
        => /\ pc \in {"validate", "done"}
           /\ result = None

\* a call with 49 HTF candles and a long enough LTF series has returned
C1_Witness ==
    /\ Returned /\ result = None
    /\ htf_df # None /\ ltf_df # None
    /\ Len(Val(htf_df)) = 49 /\ Len(Val(ltf_df)) >= 20

\* C2: in every returned signal, with entry price p and matched zone [L, H]:
\* a bullish trend gives BUY, stop L, target p + 3*(p - L); any other trend
\* gives SELL, stop H, target p - 3*(H - p); the signal carries these values
\* rounded to 2 decimals.
C2_StopTargetFormula ==
    ReturnedSignal =>
        LET z == Val(price_in_zone)
            p == Val(ltf_df)[Len(Val(ltf_df))].close
            sig == Val(result)
        IN /\ price = p
           /\ IF trend = "bullish"
              THEN side = "BUY" /\ sl = z.low /\ tp = p + 3 * (p - z.low)
              ELSE side = "SELL" /\ sl = z.high /\ tp = p - 3 * (z.high - p)
           /\ sig.side = side /\ sig.sl = Round2(sl) /\ sig.tp = Round2(tp)
           /\ sig.entry = <<Round2(p), Round2(p)>>

\* a SELL signal with the entry strictly below the stop has been returned
C2_Witness ==
    /\ ReturnedSignal
    /\ Val(result).side = "SELL" /\ price < sl /\ tp < price

\* C3 (as claimed): a run whose trend is range with confidence >= 0.5, that
\* passes the session gate, and whose LTF close lies in a zone the bearish scan
\* of the HTF series detects, ends with a SELL signal whose stop is that
\* zone's high.
C3_RangeActsAsBearish ==
    (/\ Returned
     /\ trend = "range" /\ trend_strength >= 50
     /\ (session_filter = Null \/ current_session = session_filter))
        => LET p == Val(ltf_df)[Len(Val(ltf_df))].close
               d == deduplicate_signals(order_blocks(Val(htf_df), "bearish", 50)
                                          \o fair_value_gaps(Val(htf_df), "bearish", 50), p)
           IN d.zone # None =>
                /\ result # None
                /\ Val(result).side = "SELL"
                /\ Val(result).sl = Round2(Val(d.zone).high)

-----------------------------------------------------------------------------
(* calculate_confidence_score on its own *)

MaxDen == 10

\* the pipeline's variables, at rest
PipelineIdle ==
    /\ htf_df = None /\ ltf_df = None
    /\ ltf_index_last = [kind |-> "int", value |-> 0] /\ session_filter = Null
    /\ min_confidence = "C" /\ fault = Null /\ srv = <<>>
    /\ pc = "idle"
    /\ trend = Null /\ trend_strength = 0 /\ current_session = "unknown"
    /\ price = 0 /\ zone_type = Null
    /\ obs = <<>> /\ fvgs = <<>> /\ price_in_zone = None
    /\ zone_source = Null /\ dedup_id = <<>>
    /\ ls_check = FALSE /\ bos_check = FALSE
    /\ zone_strength = [num |-> 0, den |-> 1] /\ confidence = Null
    /\ sl = 0 /\ tp = 0 /\ side = Null
    /\ result = None

pipeline == <<inputs, pc, locals, result>>

Strengths == {z \in [num : 0..MaxDen, den : 1..MaxDen] : z.num <= z.den}

InitScore ==
    /\ PipelineIdle
    /\ call \in {[ls_check |-> a, bos_check |-> b, zone_strength |-> z] :
                    a \in BOOLEAN, b \in BOOLEAN, z \in Strengths}
    /\ cpc = "call" /\ ret = <<>> /\ scores = ZeroScores /\ th = <<>>

CallConfidence ==
    /\ cpc = "call"
    /\ ret' = calculate_confidence_score(call.ls_check, call.bos_check, call.zone_strength)
    /\ cpc' = "ret"
    /\ UNCHANGED <<pipeline, call, scores, th>>

SpecScore == InitScore /\ [][CallConfidence]_vars

GradeRank(g) == IF g = "A" THEN 3 ELSE IF g = "B" THEN 2 ELSE 1

\* C4: the grade is A exactly when both confirmations are true and the zone
\* strength exceeds 0.7; B exactly when that fails and (both are true or the
\* strength exceeds 0.7); C otherwise.  And with the strength fixed, no call
\* with fewer confirmations gets a higher grade.
C4_GradeLadder ==
    cpc = "ret" =>
        LET both == call.ls_check /\ call.bos_check
            strong == 10 * call.zone_strength.num > 7 * call.zone_strength.den
        IN /\ ret \in {"A", "B", "C"}
           /\ (ret = "A") <=> (both /\ strong)
           /\ (ret = "B") <=> (~(both /\ strong) /\ (both \/ strong))
           /\ (ret = "C") <=> (~both /\ ~strong)
           /\ \A a \in BOOLEAN, b \in BOOLEAN :
                ((a => call.ls_check) /\ (b => call.bos_check)) =>
                    GradeRank(calculate_confidence_score(a, b, call.zone_strength))
                        <= GradeRank(ret)

\* one confirmation only and a strength of at most 0.7: graded C
C4_Witness ==
    /\ cpc = "ret" /\ ret = "C"
    /\ call.ls_check /\ ~call.bos_check
    /\ call.zone_strength = [num |-> 7, den |-> 10]

-----------------------------------------------------------------------------
(* deduplicate_signals on its own *)

MaxZones == 3

\* zones as the callers build them: order blocks carry an ob_id, gaps as the
\* docstring describes them carry an fvg_id, gaps as fair_value_gaps builds
\* them carry neither
ZoneBounds == {[low |-> 1, high |-> 2], [low |-> 2, high |-> 3]}
DedupPrices == 0..3

MkZone(kind, b, n) ==
    IF kind = "OB"
    THEN [high |-> b.high, low |-> b.low, close |-> b.high, open |-> b.low, ob_id |-> <<"OB", n>>]
    ELSE IF kind = "FVG" THEN [high |-> b.high, low |-> b.low, fvg_id |-> <<"FVG", n>>]
    ELSE [high |-> b.high, low |-> b.low]

ZoneLists ==
    UNION {{[k \in 1..n |-> MkZone(kinds[k], bounds[k], k)] :
                kinds \in [1..n -> {"OB", "FVG", "plain"}], bounds \in [1..n -> ZoneBounds]} :
           n \in 0..MaxZones}

InitDedup ==
    /\ PipelineIdle
    /\ call \in {[zones_combined |-> zs, price |-> p] :
                    zs \in ZoneLists, p \in DedupPrices}
    /\ cpc = "call" /\ ret = <<>> /\ scores = ZeroScores /\ th = <<>>

CallDedup ==
    /\ cpc = "call"
    /\ ret' = deduplicate_signals(call.zones_combined, call.price)
    /\ cpc' = "ret"
    /\ UNCHANGED <<pipeline, call, scores, th>>

SpecDedup == InitDedup /\ [][CallDedup]_vars

\* the positions of the list holding a zone with the given key whose closed
\* range contains the price
Matching(zones, key, p) ==
    {k \in 1..Len(zones) : key \in DOMAIN zones[k] /\ zones[k].low <= p /\ p <= zones[k].high}

\* C5: the first order block and the first fair-value gap (list order) that
\* contain the price decide the result: both -> the gap's zone, BOTH,
\* '<fvg_id>+<ob_id>'; one -> that zone, OB or FVG, its identifier; none ->
\* (no zone, NONE, NONE).
C5_Dedup ==
    cpc = "ret" =>
        LET zs == call.zones_combined
            O == Matching(zs, "ob_id", call.price)
            F == Matching(zs, "fvg_id", call.price)
        IN IF O # {} /\ F # {}
           THEN /\ ret.zone = <<zs[Min(F)]>>
                /\ ret.source = "BOTH"
                /\ ret.dedup_id = <<zs[Min(F)].fvg_id, "+", zs[Min(O)].ob_id>>
           ELSE IF O # {}
           THEN ret.zone = <<zs[Min(O)]>> /\ ret.source = "OB" /\ ret.dedup_id = zs[Min(O)].ob_id
           ELSE IF F # {}
           THEN ret.zone = <<zs[Min(F)]>> /\ ret.source = "FVG" /\ ret.dedup_id = zs[Min(F)].fvg_id
           ELSE ret.zone = <<>> /\ ret.source = "NONE" /\ ret.dedup_id = <<"NONE">>

\* an order block precedes the gap in the list, a second gap follows, all
\* contain the price: the first gap's bounds come back
C5_Witness ==
    /\ cpc = "ret" /\ ret.source = "BOTH"
    /\ Len(call.zones_combined) = 3
    /\ HasObId(call.zones_combined[1])
    /\ HasFvgId(call.zones_combined[2]) /\ HasFvgId(call.zones_combined[3])
    /\ ZoneContains(call.zones_combined[3], call.price)
    /\ ret.zone = <<call.zones_combined[2]>>
    /\ call.zones_combined[2].low # call.zones_combined[1].low

-----------------------------------------------------------------------------
(* fair_value_gaps on its own *)

MaxGapLen == 5

GapCandles ==
    {[high |-> 2, low |-> 1, close |-> 2, open |-> 1],
     [high |-> 4, low |-> 3, close |-> 3, open |-> 4],
     [high |-> 6, low |-> 5, close |-> 6, open |-> 5],
     [high |-> 4, low |-> 2, close |-> 4, open |-> 3]}

GapSeries == UNION {[1..n -> GapCandles] : n \in 0..MaxGapLen}

\* a lookback shorter than the series, and the default
GapLookbacks == {3, 50}

InitFvg ==
    /\ PipelineIdle
    /\ call \in {[df |-> d, trend |-> t, lookback |-> l] :
                    d \in GapSeries, t \in {Labels[k] : k \in 1..3}, l \in GapLookbacks}
    /\ cpc = "call" /\ ret = <<>> /\ scores = ZeroScores /\ th = <<>>

CallFvg ==
    /\ cpc = "call"
    /\ ret' = fair_value_gaps(call.df, call.trend, call.lookback)
    /\ cpc' = "ret"
    /\ UNCHANGED <<pipeline, call, scores, th>>

SpecFvg == InitFvg /\ [][CallFvg]_vars

\* C6 (as claimed): the k-th zone fair_value_gaps returns carries the
\* identifier FVG_<k>.
C6_FvgIdentifiers ==
    cpc = "ret" =>
        \A k \in 1..Len(ret) :
            "fvg_id" \in DOMAIN ret[k] /\ ret[k].fvg_id = <<"FVG", k>>

\* the window fair_value_gaps scans, 0-based rows as a function
GapWindow == LastRows(call.df, call.lookback)

\* pair (i-1, i) of the window is a gap in the direction of the trend
IsGapPair(i) ==
    \/ call.trend = "bullish" /\ At(GapWindow, i - 1).high < At(GapWindow, i).low
    \/ call.trend = "bearish" /\ At(GapWindow, i - 1).low > At(GapWindow, i).high

\* no candle from index i on reaches the bound of the gap at pair (i-1, i)
NeverRetraced(i) ==
    \A j \in i..(Len(GapWindow) - 1) :
        IF call.trend = "bullish"
        THEN At(GapWindow, j).low > At(GapWindow, i - 1).high
        ELSE At(GapWindow, j).high < At(GapWindow, i - 1).low

ScannedPairs == 1..(Len(GapWindow) - 2)
OpenGaps == {i \in ScannedPairs : IsGapPair(i) /\ NeverRetraced(i)}

\* C10: the gaps reported are, in scan order, those of the scanned pairs
\* (i-1, i) for which every candle at index >= i stays strictly beyond the
\* gap's bound (lows above the lower bound of a bullish gap, highs below the
\* upper bound of a bearish gap); a gap a later candle retraces into is not
\* reported.
C10_ReportedGapsUnfilled ==
    cpc = "ret" =>
        /\ Len(ret) = Cardinality(OpenGaps)
        /\ \A i \in OpenGaps :
             LET k == Cardinality({j \in OpenGaps : j <= i})
             IN IF call.trend = "bullish"
                THEN ret[k].low = At(GapWindow, i - 1).high /\ ret[k].high = At(GapWindow, i).low
                ELSE ret[k].high = At(GapWindow, i - 1).low /\ ret[k].low = At(GapWindow, i).high

\* one bullish gap is reported while an earlier gap of the window, touched
\* again by the candle after it, is not
C10_Witness ==
    /\ cpc = "ret" /\ Len(ret) = 1
    /\ call.trend = "bullish"
    /\ \E i \in ScannedPairs :
         /\ IsGapPair(i) /\ ~NeverRetraced(i)
         /\ At(GapWindow, i + 1).low = At(GapWindow, i - 1).high

-----------------------------------------------------------------------------
(* find_swing_highs / find_swing_lows on their own *)

MaxSwingLen == 5
MaxWindow == 2

SwingCandles ==
    {[high |-> 2, low |-> 1, close |-> 2, open |-> 1],
     [high |-> 3, low |-> 1, close |-> 2, open |-> 3],
     [high |-> 3, low |-> 2, close |-> 3, open |-> 2]}

SwingSeries == UNION {[1..n -> SwingCandles] : n \in 0..MaxSwingLen}

InitSwing ==
    /\ PipelineIdle
    /\ call \in {[df |-> d, window |-> w] : d \in SwingSeries, w \in 1..MaxWindow}
    /\ cpc = "call" /\ ret = <<>> /\ scores = ZeroScores /\ th = <<>>

CallSwingHighs ==
    /\ cpc = "call"
    /\ ret' = find_swing_highs(call.df, call.window)
    /\ cpc' = "ret_highs"
    /\ UNCHANGED <<pipeline, call, scores, th>>

CallSwingLows ==
    /\ cpc = "call"
    /\ ret' = find_swing_lows(call.df, call.window)
    /\ cpc' = "ret_lows"
    /\ UNCHANGED <<pipeline, call, scores, th>>

SpecSwing == InitSwing /\ [][CallSwingHighs \/ CallSwingLows]_vars

Increasing(seq) == \A k \in 1..(Len(seq) - 1) : seq[k] < seq[k + 1]
Elements(seq) == {seq[k] : k \in 1..Len(seq)}

\* C8: the indices returned are, in increasing order, exactly the i with
\* w <= i < n-w whose high (low) is not exceeded (undercut) by any candle of
\* [i-w, i+w]; none for n < 2w+1.
C8_SwingIndices ==
    LET n == Len(call.df)
        w == call.window
        inner == {i \in 0..(n - 1) : w <= i /\ i < n - w}
    IN /\ cpc = "ret_highs" =>
            /\ Increasing(ret)
            /\ Elements(ret) =
                 {i \in inner : \A j \in (i - w)..(i + w) : At(call.df, j).high <= At(call.df, i).high}
            /\ n < 2 * w + 1 => ret = <<>>
       /\ cpc = "ret_lows" =>
            /\ Increasing(ret)
            /\ Elements(ret) =
                 {i \in inner : \A j \in (i - w)..(i + w) : At(call.df, j).low >= At(call.df, i).low}
            /\ n < 2 * w + 1 => ret = <<>>

\* a plateau of equal highs: two neighbouring indices are both swing highs
C8_Witness ==
    /\ cpc = "ret_highs" /\ call.window = 1 /\ Len(call.df) = 5
    /\ ret = <<2, 3>>
    /\ At(call.df, 2).high = At(call.df, 3).high

-----------------------------------------------------------------------------
(* htf_trend_advanced, indicator by indicator *)

MinTrendLen == 20

TrendShapes == HtfShapes \cup LtfShapes
TrendLens == {MinTrendLen - 1, MinTrendLen, MinHTF - 1} \cup (MinHTF..(MinHTF + ExtraLen))

InitTrend ==
    /\ PipelineIdle
    /\ call \in {[df |-> MkSeries(sh, ph, 200, n), lookback |-> l] :
                    sh \in TrendShapes, ph \in 0..MaxPhase, n \in TrendLens, l \in {30, 50}}
    /\ cpc = "call" /\ ret = <<>> /\ scores = ZeroScores /\ th = <<>>

\* if len(df) < 20: return "range", 0.0; else recent and the zeroed scores
TrendEnter ==
    /\ cpc = "call"
    /\ IF Len(call.df) < MinTrendLen
       THEN ret' = [trend |-> "range", confidence |-> 0] /\ cpc' = "ret"
       ELSE ret' = ret /\ cpc' = "swing"
    /\ scores' = ZeroScores
    /\ UNCHANGED <<pipeline, call, th>>

TrendSwing ==
    /\ cpc = "swing"
    /\ scores' = SwingScore(LastRows(call.df, call.lookback), scores)
    /\ cpc' = "ma"
    /\ UNCHANGED <<pipeline, call, ret, th>>

TrendMA ==
    /\ cpc = "ma"
    /\ scores' = MAScore(LastRows(call.df, call.lookback), scores)
    /\ cpc' = "bias"
    /\ UNCHANGED <<pipeline, call, ret, th>>

TrendBias ==
    /\ cpc = "bias"
    /\ scores' = BiasScore(LastRows(call.df, call.lookback), scores)
    /\ cpc' = "decide"
    /\ UNCHANGED <<pipeline, call, ret, th>>

TrendDecide ==
    /\ cpc = "decide"
    /\ ret' = [trend |-> ArgMaxLabel(scores), confidence |-> MaxScore(scores)]
    /\ cpc' = "ret"
    /\ UNCHANGED <<pipeline, call, scores, th>>

NextTrend == TrendEnter \/ TrendSwing \/ TrendMA \/ TrendBias \/ TrendDecide

SpecTrend == InitTrend /\ [][NextTrend]_vars

LabelSet == {"bullish", "bearish", "range"}

\* what one indicator may add: the full weight to bullish or bearish, or half
\* of it to range
Contribution(s, full) ==
    {[s EXCEPT !.bullish = @ + full], [s EXCEPT !.bearish = @ + full],
     [s EXCEPT !.range = @ + (full \div 2)]}

AfterSwing == {ZeroScores} \cup Contribution(ZeroScores, 40)
AfterMA == UNION {Contribution(s, 30) : s \in AfterSwing}
AfterBias == UNION {Contribution(s, 30) : s \in AfterMA}

\* C9: a series shorter than 20 candles gives (range, 0.0); otherwise the
\* scores accumulate the swing (0.4, or 0.2 to range, or nothing), moving
\* average (0.3, or 0.15 to range) and candle bias (0.3, or 0.15 to range)
\* contributions, the label returned has the highest score, and the confidence
\* returned is that score, within [0, 1].
C9_TrendClassifier ==
    /\ cpc = "ma" => scores \in AfterSwing
    /\ cpc = "bias" => scores \in AfterMA
    /\ cpc = "decide" => scores \in AfterBias
    /\ cpc = "ret" =>
         IF Len(call.df) < 20
         THEN ret = [trend |-> "range", confidence |-> 0]
         ELSE /\ scores \in AfterBias
              /\ ret.trend \in LabelSet
              /\ ret.confidence = scores[ret.trend]
              /\ \A l \in LabelSet : scores[l] <= ret.confidence
              /\ 0 <= ret.confidence /\ ret.confidence <= 100
              /\ ret = htf_trend_advanced(call.df, call.lookback)

\* bullish and bearish tie for the highest score: bullish is returned
C9_Witness ==
    /\ cpc = "ret" /\ Len(call.df) >= 20
    /\ scores.bullish = scores.bearish /\ scores.bullish > scores.range
    /\ ret = [trend |-> "bullish", confidence |-> scores.bullish]

-----------------------------------------------------------------------------
(* order_blocks called from several worker threads *)

NumThreads == 2
Threads == 1..NumThreads

\* (variant: ob_counter is one module-level cell used by every call)
CounterCell_Shared(t) == 1

\* the cell holding ob_counter for the call running on thread t: a local of
\* that call's own frame
CounterCell(t) == t

Bull(l) == [open |-> l, close |-> l + 4, high |-> l + 4, low |-> l]
Bear(h) == [open |-> h, close |-> h - 4, high |-> h, low |-> h - 4]

ObInputs ==
    {[df |-> <<Bull(3), Bull(3), Bull(2), Bull(1), Bull(3)>>, trend |-> "bullish"],
     [df |-> <<Bull(3), Bull(2), Bull(1), Bull(1), Bull(3)>>, trend |-> "bullish"],
     [df |-> <<Bear(5), Bear(5), Bear(6), Bear(7), Bear(5)>>, trend |-> "bearish"],
     [df |-> <<Bull(3), Bull(3), Bull(2), Bull(1), Bull(3)>>, trend |-> "bearish"],
     [df |-> <<Bull(3), Bull(3), Bull(2), Bull(1), Bull(3)>>, trend |-> "range"]}

IdleFrame == [pc |-> "idle", df |-> <<>>, trend |-> Null, recent |-> <<>>, i |-> 0, blocks |-> <<>>]

InitOB ==
    /\ PipelineIdle
    /\ call = <<>> /\ cpc = "idle" /\ ret = <<>> /\ scores = ZeroScores
    /\ th = [frame |-> [t \in Threads |-> IdleFrame], ob_counter |-> [c \in Threads |-> 0]]

\* blocks = []; recent = df.iloc[-lookback:]; ob_counter = 0
ObCall(t) ==
    /\ th.frame[t].pc \in {"idle", "done"}
    /\ \E a \in ObInputs :
         th' = [frame |-> [th.frame EXCEPT ![t] =
                              [pc |-> "loop", df |-> a.df, trend |-> a.trend,
                               recent |-> LastRows(a.df, 50), i |-> 1, blocks |-> <<>>]],
                ob_counter |-> [th.ob_counter EXCEPT ![CounterCell(t)] = 0]]
    /\ UNCHANGED <<pipeline, call, cpc, ret, scores>>

\* one iteration of for i in range(1, len(recent) - 2)
ObStep(t) ==
    LET f == th.frame[t]
        counter == th.ob_counter[CounterCell(t)]
    IN /\ f.pc = "loop"
       /\ f.trend \in {"bullish", "bearish"}
       /\ f.i < Len(f.recent) - 2
       /\ IF ObHit(f.recent, f.trend, f.i)
          THEN th' = [frame |-> [th.frame EXCEPT ![t] =
                                    [f EXCEPT !.i = @ + 1,
                                              !.blocks = Append(@, ObBlock(At(f.recent, f.i), counter + 1))]],
                      ob_counter |-> [th.ob_counter EXCEPT ![CounterCell(t)] = counter + 1]]
          ELSE th' = [th EXCEPT !.frame[t].i = @ + 1]
       /\ UNCHANGED <<pipeline, call, cpc, ret, scores>>

\* return blocks
ObReturn(t) ==
    LET f == th.frame[t]
    IN /\ f.pc = "loop"
       /\ f.trend \notin {"bullish", "bearish"} \/ f.i >= Len(f.recent) - 2
       /\ th' = [th EXCEPT !.frame[t].pc = "done"]
       /\ UNCHANGED <<pipeline, call, cpc, ret, scores>>

NextOB == \E t \in Threads : ObCall(t) \/ ObStep(t) \/ ObReturn(t)

SpecOB == InitOB /\ [][NextOB]_vars

\* C7: whatever the other threads do and whatever ran before on this thread,
\* the zones a call of order_blocks has collected carry OB_1, OB_2, .. in scan
\* order, and the zones it returns are those of a call running alone.
C7_PerCallNumbering ==
    \A t \in Threads :
        LET f == th.frame[t]
        IN /\ \A k \in 1..Len(f.blocks) : f.blocks[k].ob_id = <<"OB", k>>
           /\ f.pc = "done" => f.blocks = order_blocks(f.df, f.trend, 50)

\* one call has returned OB_1, OB_2 while another is between its first and
\* its second zone
C7_Witness ==
    \E t \in Threads, u \in Threads :
        /\ t # u
        /\ th.frame[t].pc = "done" /\ Len(th.frame[t].blocks) = 2
        /\ th.frame[u].pc = "loop" /\ Len(th.frame[u].blocks) = 1 /\ th.frame[u].i = 2
        /\ Len(order_blocks(th.frame[u].df, th.frame[u].trend, 50)) = 2

-----------------------------------------------------------------------------
(* calculate_zone_strength on its own *)

MaxZoneLevel == 4

InitStrength ==
    /\ PipelineIdle
    /\ call \in {[price |-> p, zone |-> [low |-> l, high |-> h]] :
                    p \in (0 - 2)..(MaxZoneLevel + 2), l \in 0..MaxZoneLevel, h \in 0..MaxZoneLevel}
    /\ call.zone.low <= call.zone.high
    /\ cpc = "call" /\ ret = <<>> /\ scores = ZeroScores /\ th = <<>>

CallStrength ==
    /\ cpc = "call"
    /\ ret' = calculate_zone_strength(call.price, call.zone)
    /\ cpc' = "ret"
    /\ UNCHANGED <<pipeline, call, scores, th>>

SpecStrength == InitStrength /\ [][CallStrength]_vars

\* C11: a zone with low = high has strength exactly 0.5; a zone with
\* low < high has strength 0 for a price at or beyond an edge, 1 at the
\* midpoint, and in between rises linearly from the nearer edge
\* (1 - 2*|pos - 0.5|); the strength is never outside [0, 1].
C11_ZoneStrength ==
    cpc = "ret" =>
        LET l == call.zone.low
            h == call.zone.high
            p == call.price
        IN /\ ret.den > 0 /\ 0 <= ret.num /\ ret.num <= ret.den
           /\ l = h => 2 * ret.num = ret.den
           /\ l < h =>
                /\ (p <= l \/ p >= h) => ret.num = 0
                /\ (l <= p /\ 2 * p <= l + h) => ret.num * (h - l) = ret.den * 2 * (p - l)
                /\ (2 * p >= l + h /\ p <= h) => ret.num * (h - l) = ret.den * 2 * (h - p)
                /\ 2 * p = l + h => ret.num = ret.den

\* a quarter of the way into the zone: strength 1/2
C11_Witness ==
    /\ cpc = "ret"
    /\ call.zone = [low |-> 0, high |-> 4] /\ call.price = 1
    /\ 2 * ret.num = ret.den

-----------------------------------------------------------------------------
(* Claims on the pipeline, continued *)

\* C12: in every returned signal risk_reward (in hundredths) is 0 when the
\* entry price equals the stop-loss and 3.00 when it does not.
C12_RiskReward ==
    ReturnedSignal =>
        Val(result).risk_reward = IF price = sl THEN 0 ELSE 300

\* a BUY signal with the price on the zone's low: risk 0, risk_reward 0
C12_Witness ==
    /\ ReturnedSignal /\ side = "BUY"
    /\ price = sl /\ tp = price
    /\ Val(result).risk_reward = 0

-----------------------------------------------------------------------------
(* smc_strategy with an exception raised in one of its stages *)

Stages == {"validate", "trend", "session", "zones", "scan", "match", "confirm",
           "score", "generate", "format"}

\* the stages whose code has no handler of its own: the exception reaches
\* smc_strategy's except clause
OuterStages == {"validate", "trend", "zones", "scan", "confirm", "generate"}

LocalsInit ==
    /\ trend = Null /\ trend_strength = 0 /\ current_session = "unknown"
    /\ price = 0 /\ zone_type = Null
    /\ obs = <<>> /\ fvgs = <<>> /\ price_in_zone = None
    /\ zone_source = Null /\ dedup_id = <<>>
    /\ ls_check = FALSE /\ bos_check = FALSE
    /\ zone_strength = [num |-> 0, den |-> 1] /\ confidence = Null
    /\ sl = 0 /\ tp = 0 /\ side = Null
    /\ result = None

UnitIdle == call = <<>> /\ cpc = "idle" /\ ret = <<>> /\ scores = ZeroScores /\ th = <<>>

\* series long enough to pass validation
FullHtfInputs == {Some(MkSeries(sh, 0, 200, MinHTF)) : sh \in HtfShapes}
FullLtfInputs ==
    {Some(ShiftTo(MkSeries(sh, ph, 200, 25), c)) :
        sh \in LtfShapes, ph \in 0..MaxPhase, c \in {186, 188, 200, 224, 226}}

InitFault ==
    /\ htf_df \in FullHtfInputs
    /\ ltf_df \in FullLtfInputs
    /\ \E s \in SessionInputs : session_filter = s[1] /\ ltf_index_last = s[2]
    /\ min_confidence = "C" /\ fault \in Stages /\ srv = <<>>
    /\ pc = "validate"
    /\ LocalsInit /\ UnitIdle

\* (variant: the signal built from an empty formatted dict is returned)
FormatFaultOutcome_Returned(trend_strength_, current_session_) ==
    Some([trend_strength |-> trend_strength_, session |-> current_session_])

\* format_signal_output catches its exception and returns {}; smc_strategy
\* adds trend_strength and session to it, then logs signal['side']: KeyError,
\* caught by the except clause, return None
FormatFaultOutcome(trend_strength_, current_session_) == None

\* except Exception as e: ... return None
RaiseOuter ==
    /\ pc \in OuterStages /\ fault = pc
    /\ Return(None)
    /\ fault' = "raised"
    /\ UNCHANGED <<unit, args, srv, locals>>

\* the session lookup has its own handler: warning logged, the run continues
RaiseSession ==
    /\ pc = "session" /\ fault = pc
    /\ session_filter # Null
    /\ pc' = "zones"
    /\ fault' = "raised"
    /\ UNCHANGED <<unit, args, srv, locals, result>>

\* deduplicate_signals catches its exception and returns (None, NONE, NONE)
RaiseDedup ==
    /\ pc = "match" /\ fault = pc
    /\ price_in_zone' = None /\ zone_source' = "NONE" /\ dedup_id' = <<"NONE">>
    /\ Return(None)
    /\ fault' = "raised"
    /\ UNCHANGED <<unit, args, srv, trend, trend_strength, current_session, price, zone_type,
                   obs, fvgs, ls_check, bos_check, zone_strength, confidence,
                   sl, tp, side>>

\* calculate_zone_strength returns 0.5 on an exception, calculate_confidence_score "C"
RaiseScore ==
    /\ pc = "score" /\ fault = pc
    /\ \/ /\ zone_strength' = [num |-> 1, den |-> 2]
          /\ confidence' = calculate_confidence_score(ls_check, bos_check, zone_strength')
       \/ /\ zone_strength' = calculate_zone_strength(price, Val(price_in_zone))
          /\ confidence' = "C"
    /\ pc' = "generate"
    /\ fault' = "raised"
    /\ UNCHANGED <<unit, args, srv, trend, trend_strength, current_session, price, zone_type,
                   obs, fvgs, price_in_zone, zone_source, dedup_id, ls_check,
                   bos_check, sl, tp, side, result>>

RaiseFormat ==
    /\ pc = "format" /\ fault = pc
    /\ Return(FormatFaultOutcome(trend_strength, current_session))
    /\ fault' = "raised"
    /\ UNCHANGED <<unit, args, srv, locals>>

NextFault == Next \/ RaiseOuter \/ RaiseSession \/ RaiseDedup \/ RaiseScore \/ RaiseFormat

SpecFault == InitFault /\ [][NextFault]_vars

SignalKeys ==
    {"side", "entry", "sl", "tp", "trend", "zone_type", "zone_source", "dedup_id",
     "confidence", "zone_strength", "risk_reward", "trend_strength", "session"}

\* C13: whichever stage raises, the call is at one of its stages or has
\* returned, and what it returned is no signal or a complete signal.
C13_FaultsContained ==
    /\ pc \in Stages \cup {"done"}
    /\ pc = "done" => (result = None \/ DOMAIN Val(result) = SignalKeys)

\* the formatting stage raised after stop and target were set: no signal
C13_Witness ==
    /\ pc = "done" /\ fault = "raised"
    /\ side = "BUY" /\ confidence \in {"A", "B", "C"}
    /\ result = None

-----------------------------------------------------------------------------
(* smc_strategy on a rising HTF series whose order blocks have a midpoint *)

MidSpan == 16

InitE2E ==
    /\ htf_df \in {Some(MkSeries(Shape(7, 3, 3, 6), 0, 200, n)) : n \in MinHTF..(MinHTF + ExtraLen)}
    /\ ltf_df \in {Some(ShiftTo(MkSeries(sh, ph, 200, n), c)) :
                     sh \in LtfShapes, ph \in 0..MaxPhase, n \in 25..26,
                     c \in 218..(218 + MidSpan)}
    /\ \E s \in SessionInputs : session_filter = s[1] /\ ltf_index_last = s[2]
    /\ min_confidence = "C" /\ fault = Null /\ srv = <<>>
    /\ pc = "validate"
    /\ LocalsInit /\ UnitIdle

SpecE2E == InitE2E /\ [][Next]_vars

\* C14: session filter off or satisfied, HTF bullish, the zone matched for the
\* LTF last close p is an order block [L, H] with p at its midpoint, the LTF
\* series shows a liquidity sweep and a structure break: the run returns BUY,
\* stop L, target p + 3*(p - L), grade A, zone source OB.
C14_EndToEndBuy ==
    Returned =>
        LET h == Val(htf_df)
            l == Val(ltf_df)
            p == l[Len(l)].close
            d == deduplicate_signals(order_blocks(h, "bullish", 50)
                                       \o fair_value_gaps(h, "bullish", 50), p)
        IN ( /\ session_filter = Null \/ get_trading_session(ltf_index_last) = session_filter
             /\ htf_trend_advanced(h, 50).trend = "bullish"
             /\ d.source = "OB"
             /\ 2 * p = Val(d.zone).low + Val(d.zone).high
             /\ liquidity_sweep(l, "bullish") /\ bos(l, "bullish", 20) )
           => /\ result # None
              /\ sl = Val(d.zone).low
              /\ tp = p + 3 * (p - Val(d.zone).low)
              /\ Val(result).side = "BUY"
              /\ Val(result).sl = Round2(Val(d.zone).low)
              /\ Val(result).tp = Round2(p + 3 * (p - Val(d.zone).low))
              /\ Val(result).confidence = "A"
              /\ Val(result).zone_source = "OB"

\* zone [218, 222], price 220, sweep and break seen: BUY, stop 218, target 226
C14_Witness ==
    /\ ReturnedSignal
    /\ price = 220 /\ Val(price_in_zone).low = 218 /\ Val(price_in_zone).high = 222
    /\ ls_check /\ bos_check
    /\ side = "BUY" /\ sl = 218 /\ tp = 226
    /\ Val(result).confidence = "A" /\ Val(result).zone_source = "OB"

-----------------------------------------------------------------------------
(* Claims on the session *)

Sessions == {"london", "newyork", "tokyo", "none"}

\* C15 (as claimed): the session field of every returned signal is one of
\* london, newyork, tokyo, none.
C15_SessionField ==
    ReturnedSignal => Val(result).session \in Sessions

\* the UTC hour of the time of the LTF series' latest candle
CandleUtcHour(timestamp) ==
    IF timestamp.kind = "int" THEN timestamp.candle_hour ELSE UtcHour(timestamp)

PastSessionGate == pc \in {"zones", "scan", "match", "confirm", "score", "generate", "format"}

\* C16 (as claimed): with a session filter configured, a run is past the
\* session gate only if the session of the time of the latest LTF candle
\* equals the filter.
C16_SessionGate ==
    (session_filter # Null /\ PastSessionGate) =>
        SessionOfHour(CandleUtcHour(ltf_index_last)) = session_filter

-----------------------------------------------------------------------------
(* server.py : the Analyze handler around smc_strategy *)

SupportedExchanges == {"binance", "bybit"}

\* smc_pb2.AnalyzeResponse(): every field at its default
EmptyResponse ==
    [symbol |-> "", side |-> "", entry_low |-> 0, entry_high |-> 0,
     stop_loss |-> 0, take_profit |-> 0]

\* what fetch_ohlcv can return for the request: an empty frame after the last
\* failed attempt, or the candles
FetchedHtf == {<<>>} \cup {MkSeries(sh, 0, 200, MinHTF) : sh \in {Shape(7, 3, 4, 8), Shape(1, 1, 2, 2)}}
FetchedLtf ==
    {<<>>} \cup {ShiftTo(MkSeries(Shape(5, 2, 2, 4), ph, 200, 25), c) :
                    ph \in 0..MaxPhase, c \in {200, 226}}

InitServe ==
    /\ htf_df = None /\ ltf_df = None
    /\ ltf_index_last = [kind |-> "int", value |-> 0, candle_hour |-> 14]
    /\ session_filter = Null /\ min_confidence = "C"
    /\ fault \in {Null} \cup (Stages \ {"session"})
    /\ srv \in {[pc |-> "fetch_htf", exchange |-> e, build_fault |-> b, raised |-> FALSE,
                 code |-> "OK", response |-> EmptyResponse] :
                   e \in {"binance", "kraken"}, b \in BOOLEAN}
    /\ pc = "idle"
    /\ LocalsInit /\ UnitIdle

\* except Exception: set_details, set_code(INTERNAL), return AnalyzeResponse()
SrvError ==
    srv' = [srv EXCEPT !.pc = "replied", !.raised = TRUE, !.code = "INTERNAL",
                       !.response = EmptyResponse]

SrvReply(response) == srv' = [srv EXCEPT !.pc = "replied", !.response = response]

\* STEP 1, HTF: fetch_ohlcv raises for an unknown exchange, else returns a frame
SrvFetchHTF ==
    /\ srv.pc = "fetch_htf"
    /\ IF srv.exchange \notin SupportedExchanges
       THEN SrvError /\ UNCHANGED htf_df
       ELSE \E df \in FetchedHtf :
              IF Len(df) = 0 THEN SrvReply(EmptyResponse) /\ UNCHANGED htf_df
              ELSE htf_df' = Some(df) /\ srv' = [srv EXCEPT !.pc = "fetch_ltf"]
    /\ UNCHANGED <<unit, ltf_df, ltf_index_last, session_filter, min_confidence, fault,
                   pc, locals, result>>

\* STEP 1, LTF
SrvFetchLTF ==
    /\ srv.pc = "fetch_ltf"
    /\ \E df \in FetchedLtf :
          IF Len(df) = 0 THEN SrvReply(EmptyResponse) /\ UNCHANGED ltf_df
          ELSE ltf_df' = Some(df) /\ srv' = [srv EXCEPT !.pc = "strategy"]
    /\ UNCHANGED <<unit, htf_df, ltf_index_last, session_filter, min_confidence, fault,
                   pc, locals, result>>

\* STEP 2: signal = smc_strategy(htf_df, ltf_df, ...) is entered
SrvCallStrategy ==
    /\ srv.pc = "strategy"
    /\ pc' = "validate"
    /\ srv' = [srv EXCEPT !.pc = "in_strategy"]
    /\ UNCHANGED <<unit, args, fault, locals, result>>

\* smc_strategy has returned: if not signal: return AnalyzeResponse()
SrvAfterStrategy ==
    /\ srv.pc = "in_strategy" /\ pc = "done"
    /\ IF result = None THEN SrvReply(EmptyResponse)
       ELSE srv' = [srv EXCEPT !.pc = "build"]
    /\ UNCHANGED <<unit, args, fault, pc, locals, result>>

\* STEP 3 and STEP 4: the response is built from the signal, the Telegram
\* notification is tried (its failure is logged only), the response returned
SrvBuild ==
    /\ srv.pc = "build"
    /\ IF srv.build_fault THEN SrvError
       ELSE SrvReply([symbol |-> "SYM", side |-> Val(result).side,
                      entry_low |-> Val(result).entry[1], entry_high |-> Val(result).entry[2],
                      stop_loss |-> Val(result).sl, take_profit |-> Val(result).tp])
    /\ UNCHANGED <<unit, args, fault, pc, locals, result>>

\* StrategyConfig.SESSION_FILTER is None: the session lookup is never executed
\* under the server, so its handler is not among the steps
NextServe ==
    \/ SrvFetchHTF \/ SrvFetchLTF \/ SrvCallStrategy \/ SrvAfterStrategy \/ SrvBuild
    \/ Next \/ RaiseOuter \/ RaiseDedup \/ RaiseScore \/ RaiseFormat

SpecServe == InitServe /\ [][NextServe]_vars

\* C17 (as claimed): a request whose run ends in no signal is answered with the
\* empty response and no error status, and a request during which an internal
\* fault was raised (in fetch, strategy or response building) is answered with
\* an error status.
C17_FaultsDistinguishable ==
    srv.pc = "replied" =>
        /\ (srv.raised \/ fault = "raised") => srv.code = "INTERNAL"
        /\ (~srv.raised /\ fault # "raised" /\ result = None) =>
              srv.code = "OK" /\ srv.response = EmptyResponse

-----------------------------------------------------------------------------
(* smc_strategy called on the same frames with each min_confidence in turn *)

Grades == <<"C", "B", "A">>

InitGrade ==
    /\ htf_df \in FullHtfInputs
    /\ ltf_df \in FullLtfInputs
    /\ \E s \in SessionInputs : session_filter = s[1] /\ ltf_index_last = s[2]
    /\ min_confidence = Grades[1] /\ fault = Null /\ srv = <<>>
    /\ pc = "validate"
    /\ LocalsInit /\ UnitIdle

\* the call has returned; its result is kept and the next call is made with
\* the same frames and the next value of min_confidence
CallAgain ==
    /\ pc = "done" /\ Len(ret) < Len(Grades) - 1
    /\ ret' = Append(ret, result)
    /\ min_confidence' = Grades[Len(ret) + 2]
    /\ pc' = "validate"
    /\ trend' = Null /\ trend_strength' = 0 /\ current_session' = "unknown"
    /\ price' = 0 /\ zone_type' = Null
    /\ obs' = <<>> /\ fvgs' = <<>> /\ price_in_zone' = None
    /\ zone_source' = Null /\ dedup_id' = <<>>
    /\ ls_check' = FALSE /\ bos_check' = FALSE
    /\ zone_strength' = [num |-> 0, den |-> 1] /\ confidence' = Null
    /\ sl' = 0 /\ tp' = 0 /\ side' = Null
    /\ result' = None
    /\ UNCHANGED <<htf_df, ltf_df, ltf_index_last, session_filter, fault, srv,
                   call, cpc, scores, th>>

NextGrade == Next \/ CallAgain

SpecGrade == InitGrade /\ [][NextGrade]_vars

-----------------------------------------------------------------------------
\* C19: the step that classifies the HTF trend ends the run (with None)
\* exactly when the trend is range with confidence below 0.5; a range trend of
\* confidence 0.5 or more and every bullish or bearish trend, whatever its
\* confidence, goes on to the session stage.
C19_TrendGate ==
    [][pc = "trend" =>
          /\ trend' = htf_trend_advanced(Val(htf_df), 50).trend
          /\ trend_strength' = htf_trend_advanced(Val(htf_df), 50).confidence
          /\ (trend' = "range" /\ trend_strength' < 50) => (pc' = "done" /\ result' = None)
          /\ (trend' = "range" /\ trend_strength' >= 50) => pc' = "session"
          /\ trend' \in {"bullish", "bearish"} => pc' = "session"
          /\ trend' \in {"range", "bullish", "bearish"}]_vars

\* a range trend of confidence exactly 0.5 has passed the gate
C19_Witness ==
    /\ pc = "session" /\ trend = "range" /\ trend_strength = 50

-----------------------------------------------------------------------------
(* order_blocks on short windows *)

MaxObLen == 4

\* body exactly 60% of the range
EdgeBull == [open |-> 2, close |-> 5, high |-> 6, low |-> 1]
EdgeBear == [open |-> 5, close |-> 2, high |-> 6, low |-> 1]

ObCandles == {Bull(2), Bull(0), EdgeBull, Bear(5), Bear(7), EdgeBear}

ObSeries == UNION {[1..n -> ObCandles] : n \in 0..MaxObLen}

InitBlocks ==
    /\ PipelineIdle
    /\ call \in {[df |-> df, trend |-> t, lookback |-> l] :
                    df \in ObSeries, t \in LabelSet, l \in {MaxObLen, 50}}
    /\ cpc = "call" /\ ret = <<>> /\ scores = ZeroScores /\ th = <<>>

CallBlocks ==
    /\ cpc = "call"
    /\ ret' = order_blocks(call.df, call.trend, call.lookback)
    /\ cpc' = "done"
    /\ UNCHANGED <<pipeline, call, scores, th>>

SpecBlocks == InitBlocks /\ [][CallBlocks]_vars

\* the conditions of a zone as the claim words them
ClaimedBlock(recent, trend_, i) ==
    LET c == At(recent, i)
        n == At(recent, i + 1)
    IN IF trend_ = "bullish"
       THEN c.close > c.open /\ 10 * (c.close - c.open) >= 6 * (c.high - c.low) /\ n.low < c.low
       ELSE IF trend_ = "bearish"
       THEN c.close < c.open /\ 10 * (c.open - c.close) >= 6 * (c.high - c.low) /\ n.high > c.high
       ELSE FALSE

\* C20 (as claimed): order_blocks returns, in window order, a zone
\* [candle.low, candle.high] for every candle of the window that has a
\* following candle in the window, points in the direction of the trend, has a
\* body of at least 60% of its range and is followed by a candle that takes
\* out its low (bullish) or its high (bearish), and no other zone.
C20_OrderBlockConditions ==
    cpc = "done" =>
        LET recent == LastRows(call.df, call.lookback)
            claimed == SelectSeq(Range0(0, Len(recent) - 1),
                                 LAMBDA i : ClaimedBlock(recent, call.trend, i))
        IN /\ Len(ret) = Len(claimed)
           /\ \A k \in 1..Len(ret) :
                 /\ ret[k].low = At(recent, claimed[k]).low
                 /\ ret[k].high = At(recent, claimed[k]).high

-----------------------------------------------------------------------------
\* every pair of consecutive candles of the window, the one ending at the
\* last candle included
AllPairs == 1..(Len(GapWindow) - 1)
ClaimedGaps == {i \in AllPairs : IsGapPair(i) /\ NeverRetraced(i)}

\* C21 (as claimed): fair_value_gaps reports, in window order, the gap of
\* every pair of consecutive candles of the window, the pair ending at the
\* window's last candle included, that is a gap in the direction of the trend
\* (bullish [earlier.high, later.low], bearish [later.high, earlier.low]) and
\* is unfilled.
C21_EveryPairScanned ==
    cpc = "ret" =>
        /\ Len(ret) = Cardinality(ClaimedGaps)
        /\ \A i \in ClaimedGaps :
             LET k == Cardinality({j \in ClaimedGaps : j <= i})
             IN k <= Len(ret) /\
                IF call.trend = "bullish"
                THEN ret[k].low = At(GapWindow, i - 1).high /\ ret[k].high = At(GapWindow, i).low
                ELSE ret[k].high = At(GapWindow, i - 1).low /\ ret[k].low = At(GapWindow, i).high

-----------------------------------------------------------------------------
(* fetcher.py : fetch_ohlcv with a supported exchange *)

MaxRetries == 3

\* what one exchange.fetch_ohlcv call can do: raise, return no rows, return
\* rows that do not fit the six columns, return candles
ProviderFailures == {"error", "empty", "malformed"}
ProviderData ==
    {<<[high |-> 2, low |-> 1, close |-> 2, open |-> 1]>>,
     <<[high |-> 2, low |-> 1, close |-> 2, open |-> 1],
       [high |-> 4, low |-> 3, close |-> 3, open |-> 4]>>}
ProviderOutcomes ==
    {[kind |-> k, data |-> <<>>] : k \in ProviderFailures}
        \cup {[kind |-> "data", data |-> d] : d \in ProviderData}

\* (variant: one more attempt after the last retry)
FetchMayTry_Inclusive(attempt, retries) == attempt <= retries

\* while attempt < retries
FetchMayTry(attempt, retries) == attempt < retries

InitFetch ==
    /\ PipelineIdle
    /\ call \in {[retries |-> r] : r \in 0..MaxRetries}
    /\ cpc = "loop" /\ ret = <<>> /\ scores = ZeroScores
    /\ th = [attempt |-> 0, calls |-> <<>>]

\* one pass of the loop body: the provider call, then return df or attempt += 1
FetchAttempt ==
    /\ cpc = "loop" /\ FetchMayTry(th.attempt, call.retries)
    /\ \E o \in ProviderOutcomes :
         IF o.kind = "data"
         THEN /\ ret' = o.data /\ cpc' = "done"
              /\ th' = [th EXCEPT !.calls = Append(@, o)]
         ELSE /\ th' = [attempt |-> th.attempt + 1, calls |-> Append(th.calls, o)]
              /\ UNCHANGED <<ret, cpc>>
    /\ UNCHANGED <<pipeline, call, scores>>

\* the loop is left: return pd.DataFrame()
FetchGiveUp ==
    /\ cpc = "loop" /\ ~FetchMayTry(th.attempt, call.retries)
    /\ ret' = <<>> /\ cpc' = "done"
    /\ UNCHANGED <<pipeline, call, scores, th>>

NextFetch == FetchAttempt \/ FetchGiveUp

SpecFetch == InitFetch /\ [][NextFetch]_vars /\ WF_vars(NextFetch)

FetchCallsBounded ==
    /\ Len(th.calls) <= call.retries
    /\ \A k \in 1..(Len(th.calls) - 1) : th.calls[k].kind \in ProviderFailures

FetchResult ==
    cpc = "done" =>
        /\ ret # <<>> =>
              /\ th.calls # <<>>
              /\ th.calls[Len(th.calls)].kind = "data"
              /\ ret = th.calls[Len(th.calls)].data
        /\ ret = <<>> <=>
              /\ Len(th.calls) = call.retries
              /\ \A k \in 1..Len(th.calls) : th.calls[k].kind \in ProviderFailures

\* C22: fetch_ohlcv makes at most `retries` provider calls and every call
\* before the last one has failed or returned no usable data; it always
\* returns; the value returned is the data of the first successful call, which
\* is the last call made, and it is the empty series exactly when all
\* `retries` calls failed or returned empty data.
C22_FetchRetries ==
    /\ [](FetchCallsBounded /\ FetchResult)
    /\ <>(cpc = "done")
    /\ [][cpc = "done" => UNCHANGED <<ret, th>>]_vars

\* the third call succeeded after two failed ones
C22_Witness ==
    /\ cpc = "done" /\ call.retries = 3 /\ Len(th.calls) = 3
    /\ th.calls[1].kind = "error" /\ th.calls[2].kind = "empty"
    /\ Len(ret) = 2

-----------------------------------------------------------------------------
(* server.py : STEP 4 of Analyze, the Telegram notification *)

NotifyResponses ==
    {[symbol |-> "SYM", side |-> sd, entry_low |-> 218, entry_high |-> 222,
      stop_loss |-> st, take_profit |-> tp_] :
        <<sd, st, tp_>> \in {<<"BUY", 218, 226>>, <<"SELL", 222, 214>>, <<"BUY", 218, 220>>}}

\* what send_telegram_signal's body can do: bot.send_message delivers, raises a
\* TelegramError, or something else raises (the formatter, the Bot constructor)
SendOutcomes == {"sent", "telegram_error", "other_error"}

InitNotify ==
    /\ PipelineIdle
    /\ call \in {[enabled |-> e, bot_token |-> b, chat_id |-> c, response |-> r] :
                    e \in BOOLEAN, b \in {"", "token"}, c \in {"", "chat"},
                    r \in NotifyResponses}
    /\ cpc = "call" /\ ret = Null /\ scores = ZeroScores
    /\ th = [pc |-> "run", delivered |-> FALSE, reply |-> Null]

NotifyReturn(sent) == ret' = sent /\ th' = [th EXCEPT !.pc = "returned"]

\* run_async_telegram: the event loop is created; an exception here is caught
\* by its handler, return False
NotifyRun ==
    /\ th.pc = "run"
    /\ \/ th' = [th EXCEPT !.pc = "config"] /\ UNCHANGED ret
       \/ NotifyReturn(FALSE)
    /\ UNCHANGED <<pipeline, call, cpc, scores>>

\* send_signal_to_telegram_async: the two configuration checks
NotifyConfig ==
    /\ th.pc = "config"
    /\ IF ~call.enabled THEN NotifyReturn(FALSE)
       ELSE IF call.bot_token = "" \/ call.chat_id = "" THEN NotifyReturn(FALSE)
       ELSE th' = [th EXCEPT !.pc = "send"] /\ UNCHANGED ret
    /\ UNCHANGED <<pipeline, call, cpc, scores>>

\* await send_telegram_signal(...): a TelegramError is caught and logged inside
\* send_telegram_signal, which then returns normally; any other exception
\* reaches the caller's handler, return False
NotifySend ==
    /\ th.pc = "send"
    /\ \E o \in SendOutcomes :
         IF o = "sent" THEN th' = [th EXCEPT !.pc = "awaited", !.delivered = TRUE] /\ UNCHANGED ret
         ELSE IF o = "telegram_error" THEN th' = [th EXCEPT !.pc = "awaited"] /\ UNCHANGED ret
         ELSE NotifyReturn(FALSE)
    /\ UNCHANGED <<pipeline, call, cpc, scores>>

\* the await has returned: log "sent", return True
NotifyAwaited ==
    /\ th.pc = "awaited"
    /\ NotifyReturn(TRUE)
    /\ UNCHANGED <<pipeline, call, cpc, scores>>

\* Analyze logs telegram_sent and returns the response it built before
NotifyReply ==
    /\ th.pc = "returned"
    /\ th' = [th EXCEPT !.pc = "replied", !.reply = call.response]
    /\ cpc' = "done"
    /\ UNCHANGED <<pipeline, call, ret, scores>>

NextNotify == NotifyRun \/ NotifyConfig \/ NotifySend \/ NotifyAwaited \/ NotifyReply

SpecNotify == InitNotify /\ [][NextNotify]_vars

\* C23 (as claimed): the notification call returns True only if the message
\* was delivered, returns False whenever it was not (a Telegram API error of
\* send_message included), and Analyze returns the response it had built.
C23_NotifyResult ==
    th.pc = "replied" =>
        /\ ret = TRUE => th.delivered
        /\ ~th.delivered => ret = FALSE
        /\ th.reply = call.response

-----------------------------------------------------------------------------
(* HTF series with fair-value gaps: a staircase of rising candles, each     *)
(* opening 2 ticks above the previous high, with a falling candle that takes *)
(* out the previous low at the end of every period.                          *)

StairCandle(k, period) ==
    LET q == k \div period
        r == k % period
        first == q * 4 * (period - 1)
    IN IF r < period - 1
       THEN [open |-> first + 4 * r, close |-> first + 4 * r + 2,
             high |-> first + 4 * r + 2, low |-> first + 4 * r]
       ELSE [open |-> first + 4 * (r - 1) + 1, close |-> first + 4 * (r - 1) - 1,
             high |-> first + 4 * (r - 1) + 1, low |-> first + 4 * (r - 1) - 1]

StairSeries(n, period) == [k \in 1..n |-> StairCandle(k - 1, period)]

StairPeriods == {5, 6}
GapSpan == 6

InitGap ==
    /\ htf_df \in {Some(StairSeries(n, per)) :
                      n \in MinHTF..(MinHTF + ExtraLen), per \in StairPeriods}
    /\ ltf_df \in {Some(ShiftTo(MkSeries(sh, ph, 200, n), c)) :
                      sh \in LtfShapes, ph \in 0..MaxPhase, n \in {MinLTF, 25},
                      c \in 136..(136 + GapSpan)}
    /\ session_filter = Null
    /\ ltf_index_last = [kind |-> "int", value |-> 0, candle_hour |-> 14]
    /\ min_confidence = "C" /\ fault = Null /\ srv = <<>>
    /\ pc = "validate"
    /\ LocalsInit /\ UnitIdle

SpecGap == InitGap /\ [][Next]_vars

\* the LTF close lies inside a detected fair-value gap and inside no order block
InGapOnly ==
    /\ \E k \in 1..Len(fvgs) : ZoneContains(fvgs[k], price)
    /\ \A k \in 1..Len(obs) : ~ZoneContains(obs[k], price)

-----------------------------------------------------------------------------
SignalPricesOrdered ==
    ReturnedSignal =>
        LET sig == Val(result)
            entry == sig.entry[1]
        IN /\ sig.side \in {"BUY", "SELL"}
           /\ sig.side = "BUY" => (sig.sl <= entry /\ entry <= sig.tp)
           /\ sig.side = "SELL" => (sig.tp <= entry /\ entry <= sig.sl)

SignalEntryInZone ==
    ReturnedSignal =>
        LET sig == Val(result)
            entry == sig.entry[1]
            z == Val(price_in_zone)
        IN z.low <= entry /\ entry <= z.high

\* C25 (as claimed): in every returned signal stop-loss <= entry <= take-profit
\* for BUY and take-profit <= entry <= stop-loss for SELL, and the entry lies
\* inside the closed range of the matched zone.
C25_PricesOrderedInZone == SignalPricesOrdered /\ SignalEntryInZone

-----------------------------------------------------------------------------
(* smc_strategy on LTF series of 20 to 25 candles *)

\* bos(ltf_df, trend, lookback=20) needs lookback + 5 candles
BosMinLen == 25

InitShort ==
    /\ htf_df \in {Some(MkSeries(Shape(7, 3, 3, 6), 0, 200, n)) : n \in MinHTF..(MinHTF + ExtraLen)}
    /\ ltf_df \in {Some(ShiftTo(MkSeries(sh, ph, 200, n), c)) :
                     sh \in LtfShapes, ph \in 0..MaxPhase, n \in MinLTF..BosMinLen,
                     c \in 218..(218 + MidSpan)}
    /\ session_filter = Null
    /\ ltf_index_last = [kind |-> "int", value |-> 0, candle_hour |-> 14]
    /\ min_confidence = "C" /\ fault = Null /\ srv = <<>>
    /\ pc = "validate"
    /\ LocalsInit /\ UnitIdle

SpecShort == InitShort /\ [][Next]_vars

\* C26: with an LTF series of 20 to 24 candles the run passes the validation
\* gate, the structure-break confirmation is false at every stage, the grade
\* computed is never A, and a returned signal carries grade B or C.
C26_ShortLtfNeverA ==
    Len(Val(ltf_df)) \in MinLTF..(BosMinLen - 1) =>
        /\ pc = "done" => trend # Null
        /\ ~bos_check
        /\ confidence # "A"
        /\ ReturnedSignal => Val(result).confidence \in {"B", "C"}

\* 24 candles, liquidity sweep seen, price at the zone's midpoint: grade B
C26_Witness ==
    /\ ReturnedSignal /\ Len(Val(ltf_df)) = BosMinLen - 1
    /\ ls_check /\ ~bos_check /\ zone_strength.num = zone_strength.den
    /\ Val(result).confidence = "B"

-----------------------------------------------------------------------------
\* position of a label in the scores dict: bullish, bearish, range
LabelIndex(l) == CHOOSE k \in 1..3 : Labels[k] = l

\* the labels with the highest accumulated score
TiedLabels == {l \in LabelSet : \A m \in LabelSet : scores[m] <= scores[l]}

\* C27: once the three indicators are accumulated, the label htf_trend_advanced
\* returns is, among the labels with the highest score, the first in the order
\* bullish, bearish, range, and the confidence is that score; with bullish and
\* bearish tied the result is bullish.
C27_TieBreak ==
    (cpc = "ret" /\ Len(call.df) >= MinTrendLen) =>
        /\ ret.trend \in TiedLabels
        /\ \A l \in TiedLabels : LabelIndex(ret.trend) <= LabelIndex(l)
        /\ ret.confidence = scores[ret.trend]
        /\ {"bullish", "bearish"} \subseteq TiedLabels => ret.trend = "bullish"

\* no swing signal, bullish 0.3 and bearish 0.3: bullish with confidence 0.3
C27_Witness ==
    /\ cpc = "ret" /\ Len(call.df) >= MinTrendLen
    /\ scores = [bullish |-> 30, bearish |-> 30, range |-> 0]
    /\ TiedLabels = {"bullish", "bearish"}
    /\ ret = [trend |-> "bullish", confidence |-> 30]

-----------------------------------------------------------------------------
(* smc_strategy under every session filter and hour of the latest candle *)

Hours == 0..23

\* ltf_df.index[-1]: a UTC-aware or a naive Timestamp of the candle's time, or
\* the RangeIndex label of the frames fetch_ohlcv builds
IndexLabels ==
    {[kind |-> "utc", hour |-> h] : h \in Hours}
        \cup {[kind |-> "naive", hour |-> h] : h \in Hours}
        \cup {[kind |-> "int", value |-> 0, candle_hour |-> h] : h \in Hours}

InitSession ==
    /\ htf_df \in FullHtfInputs
    /\ ltf_df \in {Some(ShiftTo(MkSeries(sh, ph, 200, 25), 226)) :
                      sh \in LtfShapes, ph \in 0..MaxPhase}
    /\ session_filter \in {Null, "london", "newyork", "tokyo"}
    /\ ltf_index_last \in IndexLabels
    /\ min_confidence = "C" /\ fault = Null /\ srv = <<>>
    /\ pc = "validate"
    /\ LocalsInit /\ UnitIdle

SpecSession == InitSession /\ [][Next]_vars

\* the table of the claim
ClaimedSession(h) ==
    IF 8 <= h /\ h < 16 THEN "london"
    ELSE IF 16 <= h /\ h < 21 THEN "newyork"
    ELSE IF 0 <= h /\ h < 8 THEN "tokyo"
    ELSE "none"

\* C28 (as claimed): the session looked up for UTC hour h is london for
\* 8 <= h < 16, newyork for 16 <= h < 21, tokyo for 0 <= h < 8 and none for
\* 21 <= h <= 23, and a run with session_filter = newyork whose latest candle
\* falls in the hours 13 to 15 UTC returns no signal.
C28_SessionTable ==
    /\ \A h \in Hours : SessionOfHour(h) = ClaimedSession(h)
    /\ current_session # "unknown" =>
          current_session = ClaimedSession(UtcHour(ltf_index_last))
    /\ (pc = "done" /\ session_filter = "newyork"
           /\ CandleUtcHour(ltf_index_last) \in 13..15) => result = None

=============================================================================
